---- MODULE Spec2Model ----
(***************************************************************************)
(* A model of the LuaSQL Firebird driver, src/src/ls_firebird.c: the       *)
(* handle hierarchy environment -> connection -> statement -> cursor, the  *)
(* lock counts and registry pins that keep parents alive, the engine calls *)
(* each operation issues (any of which may fail), the finalizers, and the  *)
(* single retained transaction of a connection.                           *)
(*                                                                         *)
(* Every C function that changes state is an operator from a "world" (the  *)
(* record of the program's state plus the engine calls issued so far and   *)
(* the value returned) to a world; an action applies one Lua-visible       *)
(* method to the current state and stores the resulting world.             *)
(***************************************************************************)
EXTENDS Integers, Sequences, FiniteSets, TLC

\* Bounds of the model: how many handles of each kind a run may create, and
\* the largest result set the engine delivers.
MaxConns == 1
MaxStmts == 1
MaxCurs == 2
MaxRows == 2

Conns == 1..MaxConns
Stmts == 1..MaxStmts
Curs == 1..MaxCurs

\* The isc_info_sql_stmt_* classifications conn_prepare accepts.
SupportedTypes == {"select", "insert", "update", "delete", "ddl", "exec_procedure"}

\* The classifications the engine answers in this model: insert, delete and
\* ddl take the path of update through every function modelled here (they
\* differ only in the counter count_rows_affected reads), and "commit"
\* (isc_info_sql_stmt_commit) stands for the rejected ones.
StmtTypes == {"select", "update", "exec_procedure", "commit"}

\* Statement kinds whose execution changes data in the transaction.
Modifies(t) == t \in {"insert", "update", "delete", "ddl", "exec_procedure"}

\* Column counts isc_dsql_describe reports for a statement of type t in this
\* model: a select of two columns (the descriptor is described twice), a
\* procedure call with one output column (described once), and no column
\* for the other kinds.
ColCounts(t) ==
  CASE t = "select" -> {2}
    [] t = "exec_procedure" -> {1}
    [] OTHER -> {0}

\* Parameter counts isc_dsql_describe_bind reports in this model: none, or
\* more than the one XSQLVAR first allocated (a second describe).
ParamCounts == {0, 2}

\* write_blob puts a string in segments of SegLen bytes; set_param sends a
\* string through write_blob when it is longer than 0x7FF0 bytes, and
\* LongString is the shortest such string.
SegLen == 10000
LongString == 32753

\* The isc_put_segment calls write_blob issues for len bytes when none
\* fails: one per full segment while more than SegLen bytes remain, and
\* one for the rest.
NPuts(len) == IF len > SegLen THEN (len - 1) \div SegLen + 1 ELSE 1

\* What binding one parameter does: a value stored inline (no engine
\* call), a failed allocation (custom_fb_error), or a long string written
\* as a blob, where `fail` is the position of the engine call of
\* write_blob that fails (1 the create, then the puts, last the close;
\* 0 when none fails).
ParamOutcomes ==
  {[kind |-> "inline", fail |-> 0], [kind |-> "nomem", fail |-> 0]}
  \cup {[kind |-> "blob", fail |-> f] : f \in 0..(NPuts(LongString) + 2)}
Inline == [kind |-> "inline", fail |-> 0]
BlobOk == [kind |-> "blob", fail |-> 0]

\* What binding the parameters of a statement does, one outcome for each
\* parameter in order: any outcome for the first parameter followed by an
\* inline value, or a failing first parameter followed by a blob written
\* with success.
ParamChoices(nin) ==
  IF nin = 0 THEN {<<>>}
  ELSE {<<o, Inline>> : o \in ParamOutcomes}
       \cup {<<o, BlobOk>> : o \in ParamOutcomes \ {Inline, BlobOk}}

VARIABLES
  env,       \* env_data: closed, lock, status (status_vector holds an error)
  conn,      \* conn_data per connection id
  stmt,      \* stmt_data per statement id
  cur,       \* cur_data per cursor id
  registry,  \* the keys registerobj holds in LUA_REGISTRYINDEX
  phase,     \* "run", or "closing" once lua_close runs the finalizers
  last,      \* the last operation: name, handle, result, engine calls issued
  from,      \* conn_escape: the bytes of the Lua string passed to it
  to,        \* conn_escape: the bytes of the Lua string it returned
  dpb,       \* env_connect: the user name and password and the buffer built
  blob,      \* write_blob: the bytes to write and the segments put
  var        \* set_param: one XSQLVAR of an input descriptor and its bindings

vars == <<env, conn, stmt, cur, registry, phase, last, from, to, dpb, blob, var>>

\* The variables of the handles, and the values the variables of the pure
\* functions keep while they are not exercised.
handles == <<env, conn, stmt, cur, registry, phase, last>>
Unused == [done |-> FALSE]

NoConn == [made |-> FALSE, closed |-> FALSE, lock |-> 0, autocommit |-> FALSE,
           pend |-> {}, ended |-> FALSE, ref |-> FALSE, fin |-> FALSE]
NoStmt == [made |-> FALSE, closed |-> FALSE, lock |-> 0, conn |-> 0,
           type |-> "select", hidden |-> FALSE, nparams |-> 0, ncols |-> 0,
           sqln |-> 0, ref |-> FALSE, fin |-> FALSE]
NoCur == [made |-> FALSE, closed |-> FALSE, stmt |-> 0, left |-> 0,
          sqld |-> 0, sqln |-> 0, ref |-> FALSE, fin |-> FALSE]
NoOp == [op |-> "none", id |-> 0, res |-> "none", calls |-> <<>>, commits |-> {}]
NotEscaped == [done |-> FALSE, str |-> <<>>]

\* create_environment: a zeroed env_data.
Init ==
  /\ env = [closed |-> FALSE, lock |-> 0, status |-> FALSE]
  /\ conn = [c \in Conns |-> NoConn]
  /\ stmt = [s \in Stmts |-> NoStmt]
  /\ cur = [k \in Curs |-> NoCur]
  /\ registry = {}
  /\ phase = "run"
  /\ last = NoOp
  /\ from = <<>>
  /\ to = NotEscaped
  /\ dpb = Unused
  /\ blob = Unused
  /\ var = Unused

\* The state an operation starts from.
World ==
  [env |-> env, conn |-> conn, stmt |-> stmt, cur |-> cur, registry |-> registry,
   calls |-> <<>>, commits |-> {}, ret |-> "ok"]

\* One call into the Firebird client library: it is logged and overwrites
\* the environment's status vector with its outcome.
EngineCall(w, name, ok) ==
  [w EXCEPT !.calls = Append(@, <<name, ok>>), !.env.status = ~ok]

CHECK_DB_ERROR(w) == w.env.status

\* custom_fb_error writes an error of the driver's own into the status
\* vector; the write is logged with the engine calls.
custom_fb_error(w) ==
  [w EXCEPT !.calls = Append(@, <<"custom_fb_error", FALSE>>), !.env.status = TRUE]

Return(w, r) == [w EXCEPT !.ret = r]

registerobj(w, key) == [w EXCEPT !.registry = @ \cup {key}]

unregisterobj(w, key) == [w EXCEPT !.registry = @ \ {key}]

\* The guards "lock > 0" of raw_execute, conn_close, stmt_close, env_close.
Locked(n) == n > 0

\* free_stmt: the input descriptor is freed; with the native statement
\* dropped the engine forgets the statement's shape.
free_stmt(w, s) ==
  [w EXCEPT !.stmt[s].nparams = 0, !.stmt[s].ncols = 0, !.stmt[s].sqln = 0]

\* free_cur: the output descriptor is freed; with the native cursor closed
\* the engine discards the result set.
free_cur(w, k) == [w EXCEPT !.cur[k].left = 0, !.cur[k].sqld = 0, !.cur[k].sqln = 0]

\* A descriptor that keeps the one slot it was first allocated with.
sqlda_never_resized(sqld) == 1

\* The capacity (sqln) of a descriptor after the protocol of conn_prepare
\* and raw_execute: malloc_xsqlda(1), a describe that reports sqld, and
\* malloc_xsqlda(sqld) again when sqld exceeds the capacity.
sqlda_capacity(sqld) ==
  LET sqln == 1
  IN IF sqld > sqln THEN sqld ELSE sqln

\* A shut that leaves the statement on the connection's lock count.
stmt_shut_keeps_count(w, s, okDrop) ==
  LET w1 == EngineCall(w, "free_statement_drop", okDrop)
  IN IF CHECK_DB_ERROR(w1) THEN Return(w1, "dberror")
     ELSE Return([w1 EXCEPT !.stmt[s].closed = TRUE], "ok")

\* stmt_shut: drop the native statement; on success mark the statement
\* closed, take it off the connection's lock count and unpin the connection
\* when that was its last statement.
stmt_shut(w, s, okDrop) ==
  LET w1 == EngineCall(w, "free_statement_drop", okDrop)
      c == w.stmt[s].conn
      w2 == [free_stmt(w1, s) EXCEPT !.stmt[s].closed = TRUE,
                                     !.conn[c].lock = @ - 1]
  IN IF CHECK_DB_ERROR(w1) THEN Return(w1, "dberror")
     ELSE IF w2.conn[c].lock = 0
            THEN Return(unregisterobj(w2, <<"conn", c>>), "ok")
            ELSE Return(w2, "ok")

\* A cascade that never happens.
NeverCascade(st) == FALSE

\* The test "if(cur->stmt->hidden)" of cur_shut.
CascadeToStmt(st) == st.hidden

\* cur_shut: close the native cursor; on success mark the cursor closed,
\* take it off the statement's lock count, unpin the statement when the
\* count reaches zero and close a hidden statement with it.
cur_shut(w, k, okClose, okDrop) ==
  LET w1 == EngineCall(w, "free_statement_close", okClose)
      s == w.cur[k].stmt
      w2 == [free_cur(w1, k) EXCEPT !.cur[k].closed = TRUE,
                                    !.stmt[s].lock = @ - 1]
      w3 == unregisterobj(w2, <<"stmt", s>>)
  IN IF CHECK_DB_ERROR(w1) THEN Return(w1, "dberror")
     ELSE IF w2.stmt[s].lock = 0
            THEN IF CascadeToStmt(w3.stmt[s])
                   THEN stmt_shut(w3, s, okDrop)
                   ELSE Return(w3, "ok")
            ELSE Return(w2, "ok")

\* Lua frees the userdata of a handle nothing references; a closed handle's
\* finalizer does nothing, so a closed handle the caller has dropped (or has
\* never held, or that was closed by its finalizer) is gone and its slot
\* can hold a new handle.
Gone(h) == h.made /\ h.closed /\ (~h.ref \/ h.fin)

\* An operation's resulting world becomes the next state.
Store(w, op, id, res) ==
  /\ env' = w.env
  /\ conn' = [c \in Conns |-> IF Gone(w.conn[c]) THEN NoConn ELSE w.conn[c]]
  /\ stmt' = [s \in Stmts |-> IF Gone(w.stmt[s]) THEN NoStmt ELSE w.stmt[s]]
  /\ cur' = [k \in Curs |-> IF Gone(w.cur[k]) THEN NoCur ELSE w.cur[k]]
  /\ registry' = w.registry
  /\ last' = [op |-> op, id |-> id, res |-> res, calls |-> w.calls,
              commits |-> w.commits]
  /\ UNCHANGED <<phase, from, to, dpb, blob, var>>

\* The caller can invoke a method on a handle it still references.
Usable(h) == h.made /\ h.ref /\ ~h.fin

\* The smallest unused slot of each kind.
FreeConn(c) == ~conn[c].made /\ \A d \in Conns : d < c => conn[d].made
FreeStmt(s) == ~stmt[s].made /\ \A d \in Stmts : d < s => stmt[d].made
FreeCur(k) == ~cur[k].made /\ \A d \in Curs : d < k => cur[d].made

\* env_connect: attach, start the transaction, create the connection and
\* count it on the environment.  "argerror" stands for the Lua error that
\* luaL_argcheck raises on a closed handle (getenvironment, getconnection,
\* getstatement).
env_connect(w, c, okAttach, okStart) ==
  LET w1 == EngineCall(w, "attach_database", okAttach)
      w2 == EngineCall(w1, "start_transaction", okStart)
      w3 == [w2 EXCEPT !.conn[c] = [NoConn EXCEPT !.made = TRUE, !.ref = TRUE],
                       !.env.lock = @ + 1]
  IN IF w.env.closed THEN Return(w, "argerror")
     ELSE IF CHECK_DB_ERROR(w1) THEN Return(w1, "dberror")
     ELSE IF CHECK_DB_ERROR(w2) THEN Return(w2, "dberror")
     ELSE Return(registerobj(w3, <<"env", 0>>), "ok")

EnvConnect ==
  /\ phase = "run"
  /\ \E c \in Conns, okAttach, okStart \in BOOLEAN :
       /\ FreeConn(c)
       /\ LET w == env_connect(World, c, okAttach, okStart)
          IN Store(w, "env_connect", c, IF w.ret = "ok" THEN "conn" ELSE w.ret)

\* The puts of write_blob: a full segment while more than SegLen bytes
\* remain, returning at once when a put fails, then the rest.  base is the
\* length of the call log when write_blob was entered.
RECURSIVE put_segments(_, _, _, _)
put_segments(w, len, base, fail) ==
  LET w1 == EngineCall(w, "put_segment", Len(w.calls) - base + 1 # fail)
  IN IF len > SegLen
       THEN IF CHECK_DB_ERROR(w1) THEN w1
            ELSE put_segments(w1, len - SegLen, base, fail)
       ELSE w1

\* write_blob: create the blob, put the data in segments, close the blob;
\* it returns at once when the create or a put fails.
write_blob(w, len, fail) ==
  LET base == Len(w.calls)
      w1 == EngineCall(w, "create_blob2", fail # 1)
      w2 == put_segments(w1, len, base, fail)
      w3 == EngineCall(w2, "close_blob", Len(w2.calls) - base + 1 # fail)
  IN IF CHECK_DB_ERROR(w1) THEN w1
     ELSE IF CHECK_DB_ERROR(w2) THEN w2
     ELSE w3

\* set_param: a value stored inline issues no engine call and leaves the
\* status vector as it was, a long string goes through write_blob, and a
\* failed allocation records a custom error.
set_param(w, o) ==
  CASE o.kind = "inline" -> w
    [] o.kind = "blob" -> write_blob(w, LongString, o.fail)
    [] o.kind = "nomem" -> custom_fb_error(w)

\* parse_params: set_param for every parameter in order, whatever the
\* status vector holds after each.
RECURSIVE parse_params(_, _)
parse_params(w, po) ==
  IF po = <<>> THEN w ELSE parse_params(set_param(w, Head(po)), Tail(po))

\* conn_prepare: allocate and prepare the native statement, classify it,
\* size the input descriptor (a second describe when more than one
\* parameter is reported), bind the parameters, then create the Statement
\* and count it on the connection.  fp is the engine call that fails.
conn_prepare(w, c, s, t, nin, ncols, po, fp) ==
  LET w1 == EngineCall(w, "allocate_statement", fp # "allocate_statement")
      w2 == EngineCall(w1, "prepare", fp # "prepare")
      w3 == EngineCall(w2, "sql_info", fp # "sql_info")
      w4 == EngineCall(w3, "describe_bind", fp # "describe_bind")
      w5 == IF nin > 1
              THEN EngineCall(w4, "describe_bind", fp # "describe_bind2")
              ELSE w4
      w6 == IF nin > 0 THEN parse_params(w5, po) ELSE w5
      w7 == [w6 EXCEPT
               !.stmt[s] = [NoStmt EXCEPT !.made = TRUE, !.conn = c, !.type = t,
                                          !.nparams = nin, !.ncols = ncols,
                                          !.sqln = sqlda_capacity(nin),
                                          !.ref = TRUE],
               !.conn[c].lock = @ + 1]
  IN IF w.conn[c].closed THEN Return(w, "argerror")
     ELSE IF CHECK_DB_ERROR(w1) THEN Return(w1, "dberror")
     ELSE IF CHECK_DB_ERROR(w2) THEN Return(w2, "dberror")
     ELSE IF CHECK_DB_ERROR(w3) THEN Return(w3, "dberror")
     ELSE IF t \notin SupportedTypes THEN Return(w3, "unsupported SQL statement")
     ELSE IF CHECK_DB_ERROR(w4) THEN Return(w4, "dberror")
     ELSE IF CHECK_DB_ERROR(w5) THEN Return(w5, "dberror")
     ELSE IF CHECK_DB_ERROR(w6) THEN Return(w6, "dberror")
     ELSE Return(registerobj(w7, <<"conn", c>>), "ok")

\* isc_commit_retaining / isc_commit_transaction: on success everything
\* pending in the connection's transaction becomes visible to other readers.
commit(w, c, name, ok) ==
  LET w1 == EngineCall(w, name, ok)
  IN IF ok THEN [w1 EXCEPT !.commits = @ \cup w.conn[c].pend, !.conn[c].pend = {}]
     ELSE w1

\* isc_rollback_retaining / isc_rollback_transaction: on success everything
\* pending is discarded.
rollback(w, c, name, ok) ==
  LET w1 == EngineCall(w, name, ok)
  IN IF ok THEN [w1 EXCEPT !.conn[c].pend = {}] ELSE w1

\* isc_dsql_execute: on success a data-changing statement leaves its change
\* pending in the transaction, tagged with the autocommit mode in force.
execute(w, s, ok) ==
  LET w1 == EngineCall(w, "execute", ok)
      c == w.stmt[s].conn
      tag == IF w.conn[c].autocommit THEN "on" ELSE "off"
  IN IF ok /\ Modifies(w.stmt[s].type)
       THEN [w1 EXCEPT !.conn[c].pend = @ \cup {tag}]
       ELSE w1

\* A commit after every count, whatever the autocommit flag.
CommitAlways(cn) == TRUE

\* The branch "if(cur.stmt->conn->autocommit)" of raw_execute's count path.
CommitAfterCount(cn) == cn.autocommit

\* raw_execute: reject a statement with an open cursor, size the output
\* descriptor (first describe unchecked), name the cursor when there are
\* columns, execute, then either create the Cursor over a result of `rows`
\* rows and count it on the statement, or commit under autocommit, read the
\* row count and release the cursor resources (unchecked).
raw_execute(w, s, k, rows, okD1, fp, okFree) ==
  LET st == w.stmt[s]
      c == st.conn
      w1 == EngineCall(w, "describe", okD1)
      sqld == IF okD1 THEN st.ncols ELSE 0
      w2 == IF sqld > 1 THEN EngineCall(w1, "describe", fp # "describe2") ELSE w1
      w3 == IF sqld > 0
              THEN EngineCall(w2, "set_cursor_name", fp # "set_cursor_name")
              ELSE w2
      w4 == execute(w3, s, fp # "execute")
      wc == registerobj(
              [w4 EXCEPT !.cur[k] = [NoCur EXCEPT !.made = TRUE, !.stmt = s,
                                                  !.left = rows, !.sqld = sqld,
                                                  !.sqln = sqlda_capacity(sqld),
                                                  !.ref = TRUE],
                         !.stmt[s].lock = @ + 1],
              <<"stmt", s>>)
      w5 == IF CommitAfterCount(w4.conn[c])
              THEN commit(w4, c, "commit_retaining", fp # "commit_retaining")
              ELSE w4
      w6 == EngineCall(w5, "sql_info", fp # "sql_info")
      w7 == EngineCall(w6, "free_statement_close", okFree)
  IN IF st.closed THEN Return(w, "argerror")
     ELSE IF Locked(st.lock)
       THEN Return(w, "statement already has an open cursor")
     ELSE IF sqld > 1 /\ CHECK_DB_ERROR(w2) THEN Return(w2, "dberror")
     ELSE IF sqld > 0 /\ CHECK_DB_ERROR(w3) THEN Return(w3, "dberror")
     ELSE IF CHECK_DB_ERROR(w4) THEN Return(w4, "dberror")
     ELSE IF sqld > 0 THEN Return(wc, "cursor")
     ELSE IF CommitAfterCount(w4.conn[c]) /\ CHECK_DB_ERROR(w5)
       THEN Return(w5, "dberror")
     ELSE IF CHECK_DB_ERROR(w6) THEN Return(w6, "dberror")
     ELSE Return(w7, "count")

\* conn_execute: prepare, execute, mark the statement hidden and, when no
\* Cursor came back, close it at once.  The statement never reaches the
\* caller: when execute fails it stays behind unreferenced.
conn_execute(w, c, s, k, t, nin, ncols, po, fp, rows, okD1, fx, okFree, okDrop) ==
  LET w1 == conn_prepare(w, c, s, t, nin, ncols, po, fp)
      w1n == [w1 EXCEPT !.stmt[s].ref = FALSE]
      w2 == raw_execute(w1n, s, k, rows, okD1, fx, okFree)
      w3 == [w2 EXCEPT !.stmt[s].hidden = TRUE]
      w4 == stmt_shut(w3, s, okDrop)
  IN IF w1.ret # "ok" THEN w1
     ELSE IF w2.ret \notin {"cursor", "count"} THEN w2
     ELSE IF w2.ret = "cursor" THEN w3
     ELSE IF w4.ret # "ok" THEN w4
     ELSE Return(w4, "count")

\* stmt_execute: bind the parameters when the statement has any, check the
\* status vector, then raw_execute.
stmt_execute(w, s, k, po, rows, okD1, fx, okFree) ==
  LET w1 == IF w.stmt[s].nparams > 0 THEN parse_params(w, po) ELSE w
  IN IF w.stmt[s].closed THEN Return(w, "argerror")
     ELSE IF w.stmt[s].nparams > 0 /\ CHECK_DB_ERROR(w1) THEN Return(w1, "dberror")
     ELSE raw_execute(w1, s, k, rows, okD1, fx, okFree)

\* conn_commit, conn_rollback: commit or roll back, keeping the transaction.
conn_commit(w, c, ok) ==
  LET w1 == commit(w, c, "commit_retaining", ok)
  IN IF w.conn[c].closed THEN Return(w, "argerror")
     ELSE IF CHECK_DB_ERROR(w1) THEN Return(w1, "dberror")
     ELSE Return(w1, "true")

conn_rollback(w, c, ok) ==
  LET w1 == rollback(w, c, "rollback_retaining", ok)
  IN IF w.conn[c].closed THEN Return(w, "argerror")
     ELSE IF CHECK_DB_ERROR(w1) THEN Return(w1, "dberror")
     ELSE Return(w1, "true")

conn_setautocommit(w, c, b) ==
  IF w.conn[c].closed THEN Return(w, "argerror")
  ELSE Return([w EXCEPT !.conn[c].autocommit = b], "true")

\* A release that forgets the environment's lock count.
conn_release_keeps_count(w, c) == [w EXCEPT !.conn[c].closed = TRUE]

\* The end of conn_close and conn_gc: mark closed, take the connection off
\* the environment's lock count, unpin the environment at zero.
conn_release(w, c) ==
  LET w1 == [w EXCEPT !.conn[c].closed = TRUE, !.env.lock = @ - 1]
  IN IF w1.env.lock = 0 THEN unregisterobj(w1, <<"env", 0>>) ELSE w1

\* The engine calls that are passed the connection's transaction handle.
TxCalls == {"prepare", "execute", "create_blob2", "open_blob2",
            "commit_retaining", "rollback_retaining",
            "commit_transaction", "rollback_transaction"}

\* An end of transaction that rolls back whatever the autocommit flag.
end_transaction_rollback(w, c, ok) == rollback(w, c, "rollback_transaction", ok)

\* conn_close and conn_gc end the transaction by commit under autocommit
\* and by rollback otherwise.  A call that succeeds releases the native
\* transaction handle (ended); what the engine answers to a later call on
\* that handle is left open.
end_transaction(w, c, ok) ==
  LET w1 == IF w.conn[c].autocommit
              THEN commit(w, c, "commit_transaction", ok)
              ELSE rollback(w, c, "rollback_transaction", ok)
  IN [w1 EXCEPT !.conn[c].ended = @ \/ ok]

\* A close that skips the test of the lock count.
conn_close_untested(w, c, okTx, okDetach) ==
  LET w1 == end_transaction(w, c, okTx)
      w2 == EngineCall(w1, "detach_database", okDetach)
  IN IF w.conn[c].closed THEN Return(w, "false")
     ELSE IF CHECK_DB_ERROR(w1) THEN Return(w1, "dberror")
     ELSE IF CHECK_DB_ERROR(w2) THEN Return(w2, "dberror")
     ELSE Return(conn_release(w2, c), "true")

\* conn_close: false when already closed, an error while statements are
\* open; otherwise end the transaction, detach, and release.
conn_close(w, c, okTx, okDetach) ==
  LET w1 == end_transaction(w, c, okTx)
      w2 == EngineCall(w1, "detach_database", okDetach)
  IN IF w.conn[c].closed THEN Return(w, "false")
     ELSE IF Locked(w.conn[c].lock)
       THEN Return(w, "there are still open statements/cursors")
     ELSE IF CHECK_DB_ERROR(w1) THEN Return(w1, "dberror")
     ELSE IF CHECK_DB_ERROR(w2) THEN Return(w2, "dberror")
     ELSE Return(conn_release(w2, c), "true")

\* conn_gc: the same without the lock test and without any status check.
conn_gc(w, c, okTx, okDetach) ==
  LET w1 == end_transaction(w, c, okTx)
      w2 == EngineCall(w1, "detach_database", okDetach)
  IN IF w.conn[c].closed THEN Return(w, "ok")
     ELSE Return(conn_release(w2, c), "ok")

\* A statement close that skips the test of the lock count.
stmt_close_untested(w, s, okDrop) ==
  LET w1 == stmt_shut(w, s, okDrop)
  IN IF ~w.stmt[s].closed
       THEN IF w1.ret # "ok" THEN w1 ELSE Return(w1, "true")
     ELSE Return(w, "false")

\* stmt_close: an error while cursors are open, stmt_shut on an open
\* statement, false on a closed one.
stmt_close(w, s, okDrop) ==
  LET w1 == stmt_shut(w, s, okDrop)
  IN IF Locked(w.stmt[s].lock) THEN Return(w, "there are still open cursors")
     ELSE IF ~w.stmt[s].closed
       THEN IF w1.ret # "ok" THEN w1 ELSE Return(w1, "true")
     ELSE Return(w, "false")

\* stmt_gc: stmt_shut on an open statement, whatever its lock count.
stmt_gc(w, s, okDrop) ==
  IF ~w.stmt[s].closed THEN stmt_shut(w, s, okDrop) ELSE Return(w, "ok")

\* A single-row test that takes every statement for a procedure call, and
\* one that takes none.
SingleRowAlways(st) == TRUE
SingleRowNever(st) == FALSE

\* The test of cur_fetch that closes the cursor after one fetched row.
SingleRow(st) == st.type = "exec_procedure"

\* What isc_dsql_fetch can answer on a result set with `left` rows still to
\* deliver: a row (0) while rows remain, no-more-rows (100) after the last,
\* or a failure.
FetchAnswers(cu) ==
  IF cu.left > 0 THEN {"row", "error"} ELSE {"eod", "error"}

\* How decoding the columns of a fetched row goes: no blob to read (no
\* blob column, or a NULL in it), a blob read with success, or a blob read
\* in which isc_open_blob2, isc_get_segment or isc_close_blob fails.
BlobReads == {"none", "ok", "open", "get", "close"}

\* push_column on a blob column: open the blob, get segments until
\* isc_get_segment answers neither success nor isc_segment (the end of the
\* blob, or a failure), close the blob and push what was read.  No status
\* is tested.  After a failed open the handle is still zero and the engine
\* rejects the get and the close; one segment stands for the data.
push_column(w, br) ==
  LET w1 == EngineCall(w, "open_blob2", br # "open")
      w2 == EngineCall(w1, "get_segment", br \notin {"open", "get"})
      w3 == IF br \in {"open", "get"} THEN w2
            ELSE EngineCall(w2, "get_segment_eof", TRUE)
      w4 == EngineCall(w3, "close_blob", br \notin {"open", "close"})
  IN IF br = "none" THEN w ELSE w4

\* A fetch that shuts the cursor on every status other than a row.
cur_fetch_shuts_on_error(w, k, ans, br, okClose, okDrop) ==
  LET w1 == EngineCall(w, "fetch", ans # "error")
      w2 == push_column([w1 EXCEPT !.cur[k].left = @ - 1], br)
      w3 == cur_shut(w1, k, okClose, okDrop)
  IN IF w.cur[k].closed THEN Return(w, "nothing")
     ELSE IF ans = "row" THEN Return(w2, "row")
     ELSE IF ans = "error" THEN Return(w3, "dberror")
     ELSE IF w3.ret # "ok" THEN w3 ELSE Return(w3, "eod")

\* cur_fetch: nothing on a closed cursor; otherwise fetch.  The columns
\* of a row are decoded and the row is returned (after cur_shut, result
\* ignored, for a procedure call); on no-more-rows the cursor is shut and
\* the result of cur_shut returned; any other status is an error.
cur_fetch(w, k, ans, br, okClose, okDrop) ==
  LET w1 == EngineCall(w, "fetch", ans # "error")
      w2 == push_column([w1 EXCEPT !.cur[k].left = @ - 1], br)
      w3 == cur_shut(w1, k, okClose, okDrop)
  IN IF w.cur[k].closed THEN Return(w, "nothing")
     ELSE IF ans = "row"
       THEN IF SingleRow(w.stmt[w.cur[k].stmt])
              THEN Return(cur_shut(w2, k, okClose, okDrop), "row")
              ELSE Return(w2, "row")
     ELSE IF ans = "error" THEN Return(w1, "dberror")
     ELSE IF w3.ret # "ok" THEN w3 ELSE Return(w3, "eod")

\* cur_close: cur_shut on an open cursor, false on a closed one.
cur_close(w, k, okClose, okDrop) ==
  LET w1 == cur_shut(w, k, okClose, okDrop)
  IN IF ~w.cur[k].closed
       THEN IF w1.ret # "ok" THEN w1 ELSE Return(w1, "true")
     ELSE Return(w, "false")

\* cur_gc: cur_shut on an open cursor.
cur_gc(w, k, okClose, okDrop) ==
  IF ~w.cur[k].closed THEN cur_shut(w, k, okClose, okDrop) ELSE Return(w, "ok")

\* env_close: false when closed, an error while connections are open.
env_close(w) ==
  IF w.env.closed THEN Return(w, "false")
  ELSE IF Locked(w.env.lock) THEN Return(w, "there are still open connections")
  ELSE Return([unregisterobj(w, <<"env", 0>>) EXCEPT !.env.closed = TRUE], "true")

\* ---------------------------------------------------------------------
\* The caller's steps.  A method runs on a handle the caller references;
\* the engine's answers and the SQL's shape are chosen by \E.

\* What the engine answers during conn_prepare: the statement's type, its
\* parameter and column counts, what binding the parameters does, and the
\* checked call that fails (fp).  A call that fails before the statement is
\* classified or described fails the same way for every statement, so one
\* statement stands for all there.
PrepareInputs ==
  {[t |-> "select", nin |-> 0, ncols |-> 2, po |-> <<>>, fp |-> f] :
     f \in {"allocate_statement", "prepare", "sql_info", "describe_bind"}}
  \cup {[t |-> "select", nin |-> 2, ncols |-> 2, po |-> <<Inline, Inline>>,
         fp |-> "describe_bind2"]}
  \cup {[t |-> "commit", nin |-> 0, ncols |-> 0, po |-> <<>>, fp |-> "none"]}
  \cup UNION {[t : {ty}, nin : {n}, ncols : ColCounts(ty), po : ParamChoices(n),
               fp : {"none"}] : ty \in StmtTypes \cap SupportedTypes,
                                n \in ParamCounts}

\* What the engine answers during raw_execute on a statement of ncols
\* columns: the first describe (unchecked), the checked call that fails
\* (fx), the size of the result set when a cursor is opened, and the
\* unchecked final isc_dsql_free_statement when a count is returned, and
\* the drop of the hidden statement that conn_execute then issues.
ExecInputs(ncols, autocommit) ==
  {i \in [okD1 : BOOLEAN, rows : 0..MaxRows, okFree : BOOLEAN, okDrop : BOOLEAN,
          fx : {"none", "describe2", "set_cursor_name", "execute",
                "commit_retaining", "sql_info"}] :
     LET sqld == IF i.okD1 THEN ncols ELSE 0
     IN /\ i.fx = "describe2" => sqld > 1
        /\ i.fx = "set_cursor_name" => sqld > 0
        /\ i.fx = "commit_retaining" => sqld = 0 /\ autocommit
        /\ i.fx = "sql_info" => sqld = 0
        /\ (sqld = 0 \/ i.fx # "none") => i.rows = 0
        /\ (sqld > 0 \/ i.fx # "none") => i.okFree /\ i.okDrop}

\* Every parameter is stored inline.
InlineOnly(po) == \A i \in 1..Len(po) : po[i] = Inline

\* The answers that stand for all when the execute half is not reached.
NoExec ==
  [okD1 |-> TRUE, rows |-> 0, okFree |-> TRUE, okDrop |-> TRUE, fx |-> "none"]

\* What the engine answers when a cursor is shut: the close of the native
\* cursor and, when that closes a hidden statement too, the drop of the
\* native statement.
ShutInputs(k) ==
  {i \in [okClose : BOOLEAN, okDrop : BOOLEAN] :
     (cur[k].closed \/ ~i.okClose \/ ~CascadeToStmt(stmt[cur[k].stmt]))
       => i.okDrop}

\* The slot of the Cursor an execute would create; 0 when all are in use.
NewCur == IF \E k \in Curs : FreeCur(k) THEN CHOOSE k \in Curs : FreeCur(k) ELSE 0

ResultName(w, made) == IF w.ret = "ok" THEN made ELSE w.ret

ConnPrepare ==
  /\ phase = "run"
  /\ \E c \in Conns, s \in Stmts, p \in PrepareInputs :
       /\ Usable(conn[c])
       /\ FreeStmt(s)
       /\ LET w == conn_prepare(World, c, s, p.t, p.nin, p.ncols, p.po, p.fp)
          IN Store(w, "conn_prepare", c, ResultName(w, "stmt"))

\* The engine answers of the execute half matter only when the prepare
\* half succeeded; they are varied for parameters stored inline, and every
\* call of the execute half succeeds after other bindings.
ConnExecute ==
  /\ phase = "run"
  /\ \E c \in Conns, s \in Stmts, p \in PrepareInputs :
       /\ Usable(conn[c])
       /\ FreeStmt(s)
       /\ NewCur # 0 \/ p.ncols = 0
       /\ \E x \in IF conn_prepare(World, c, s, p.t, p.nin, p.ncols, p.po,
                                   p.fp).ret = "ok" /\ InlineOnly(p.po)
                      THEN ExecInputs(p.ncols, conn[c].autocommit)
                      ELSE {NoExec} :
            LET w == conn_execute(World, c, s, NewCur, p.t, p.nin, p.ncols, p.po,
                                  p.fp, x.rows, x.okD1, x.fx, x.okFree, x.okDrop)
            IN Store(w, "conn_execute", c, w.ret)

StmtExecute ==
  /\ phase = "run"
  /\ \E s \in Stmts :
       /\ Usable(stmt[s])
       /\ NewCur # 0 \/ stmt[s].ncols = 0 \/ Locked(stmt[s].lock)
       /\ \E po \in ParamChoices(stmt[s].nparams),
             x \in ExecInputs(stmt[s].ncols, conn[stmt[s].conn].autocommit) :
            /\ x.okDrop
            /\ Locked(stmt[s].lock) \/ ~InlineOnly(po) => x = NoExec
            /\ LET w == stmt_execute(World, s, NewCur, po, x.rows, x.okD1, x.fx,
                                  x.okFree)
               IN Store(w, "stmt_execute", s, w.ret)

ConnCommit ==
  /\ phase = "run"
  /\ \E c \in Conns, ok \in BOOLEAN :
       /\ Usable(conn[c])
       /\ LET w == conn_commit(World, c, ok)
          IN Store(w, "conn_commit", c, w.ret)

ConnRollback ==
  /\ phase = "run"
  /\ \E c \in Conns, ok \in BOOLEAN :
       /\ Usable(conn[c])
       /\ LET w == conn_rollback(World, c, ok)
          IN Store(w, "conn_rollback", c, w.ret)

ConnSetAutocommit ==
  /\ phase = "run"
  /\ \E c \in Conns, b \in BOOLEAN :
       /\ Usable(conn[c])
       /\ LET w == conn_setautocommit(World, c, b)
          IN Store(w, "conn_setautocommit", c, w.ret)

ConnClose ==
  /\ phase = "run"
  /\ \E c \in Conns, okTx, okDetach \in BOOLEAN :
       /\ Usable(conn[c])
       /\ LET w == conn_close(World, c, okTx, okDetach)
          IN Store(w, "conn_close", c, w.ret)

StmtClose ==
  /\ phase = "run"
  /\ \E s \in Stmts, okDrop \in BOOLEAN :
       /\ Usable(stmt[s])
       /\ LET w == stmt_close(World, s, okDrop)
          IN Store(w, "stmt_close", s, w.ret)

CurFetch ==
  /\ phase = "run"
  /\ \E k \in Curs :
       /\ Usable(cur[k])
       /\ \E ans \in FetchAnswers(cur[k]), br \in BlobReads, i \in ShutInputs(k) :
            /\ (cur[k].closed \/ ans # "row") => br = "none"
            /\ LET w == cur_fetch(World, k, ans, br, i.okClose, i.okDrop)
               IN Store(w, "cur_fetch", k, w.ret)

CurClose ==
  /\ phase = "run"
  /\ \E k \in Curs :
       /\ Usable(cur[k])
       /\ \E i \in ShutInputs(k) :
            LET w == cur_close(World, k, i.okClose, i.okDrop)
            IN Store(w, "cur_close", k, w.ret)

EnvClose ==
  /\ phase = "run"
  /\ LET w == env_close(World)
     IN Store(w, "env_close", 0, w.ret)

\* The caller lets go of a closed handle: its finalizer has nothing to do
\* and Lua frees it.
Forget(w, kind, id) ==
  CASE kind = "conn" -> [w EXCEPT !.conn[id].ref = FALSE]
    [] kind = "stmt" -> [w EXCEPT !.stmt[id].ref = FALSE]
    [] kind = "cur" -> [w EXCEPT !.cur[id].ref = FALSE]

Drop ==
  /\ phase = "run"
  /\ \/ \E c \in Conns :
          /\ Usable(conn[c]) /\ conn[c].closed
          /\ Store(Forget(World, "conn", c), "drop", c, "conn")
     \/ \E s \in Stmts :
          /\ Usable(stmt[s]) /\ stmt[s].closed
          /\ Store(Forget(World, "stmt", s), "drop", s, "stmt")
     \/ \E k \in Curs :
          /\ Usable(cur[k]) /\ cur[k].closed
          /\ Store(Forget(World, "cur", k), "drop", k, "cur")

\* ---------------------------------------------------------------------
\* The finalizers (__gc) of open handles.  While the program runs, Lua
\* finalizes a handle once nothing references it: the caller has let go of
\* it (that is part of the step) and the registry does not pin it.
\* lua_close finalizes every remaining handle, the newest first, so a
\* handle's children (always created after it) come before it.  A handle
\* is finalized once; one whose finalizer failed to close it stays open
\* for good.

StmtsOf(c) == {s \in Stmts : stmt[s].made /\ stmt[s].conn = c}
CursOf(s) == {k \in Curs : cur[k].made /\ cur[k].stmt = s}

Collectable(h, key, childrenDone) ==
  /\ h.made
  /\ ~h.fin
  /\ ~h.closed
  /\ IF phase = "run" THEN key \notin registry ELSE childrenDone

Finalized(w, kind, id) ==
  CASE kind = "conn" -> [w EXCEPT !.conn[id].fin = TRUE, !.conn[id].ref = FALSE]
    [] kind = "stmt" -> [w EXCEPT !.stmt[id].fin = TRUE, !.stmt[id].ref = FALSE]
    [] kind = "cur" -> [w EXCEPT !.cur[id].fin = TRUE, !.cur[id].ref = FALSE]

CurGc ==
  \E k \in Curs :
    /\ Collectable(cur[k], <<"cur", k>>, TRUE)
    /\ \E i \in ShutInputs(k) :
         LET w == cur_gc(World, k, i.okClose, i.okDrop)
         IN Store(Finalized(w, "cur", k), "cur_gc", k, w.ret)

StmtGc ==
  \E s \in Stmts, okDrop \in BOOLEAN :
    /\ Collectable(stmt[s], <<"stmt", s>>,
                   \A k \in CursOf(s) : cur[k].fin \/ cur[k].closed)
    /\ LET w == stmt_gc(World, s, okDrop)
       IN Store(Finalized(w, "stmt", s), "stmt_gc", s, w.ret)

ConnGc ==
  \E c \in Conns, okTx, okDetach \in BOOLEAN :
    /\ Collectable(conn[c], <<"conn", c>>,
                   \A s \in StmtsOf(c) : stmt[s].fin \/ stmt[s].closed)
    /\ LET w == conn_gc(World, c, okTx, okDetach)
       IN Store(Finalized(w, "conn", c), "conn_gc", c, w.ret)

\* lua_close: the interpreter state is closed; only finalizers run from
\* here on.
LuaClose ==
  /\ phase = "run"
  /\ phase' = "closing"
  /\ last' = [NoOp EXCEPT !.op = "lua_close"]
  /\ UNCHANGED <<env, conn, stmt, cur, registry, from, to, dpb, blob, var>>

Next ==
  \/ EnvConnect
  \/ ConnPrepare
  \/ ConnExecute
  \/ StmtExecute
  \/ ConnCommit
  \/ ConnRollback
  \/ ConnSetAutocommit
  \/ ConnClose
  \/ StmtClose
  \/ CurFetch
  \/ CurClose
  \/ EnvClose
  \/ Drop
  \/ CurGc
  \/ StmtGc
  \/ ConnGc
  \/ LuaClose

Spec == Init /\ [][Next]_vars

\* ---------------------------------------------------------------------
\* conn_escape.  A Lua string is a sequence of bytes of a known length,
\* which may hold zero bytes; luaL_checklstring hands C a pointer to those
\* bytes followed by a terminating zero byte.

MaxLen == 4
NUL == 0
Quote == 39
Bytes == {NUL, Quote, 97}
LuaStrings == UNION {[1..n -> Bytes] : n \in 0..MaxLen}

\* luaL_checklstring: the memory `from` points to.
luaL_checklstring(s) == s \o <<NUL>>

\* The copying loop: from position i up to the first zero byte, each byte
\* is copied and a quote is copied twice.
RECURSIVE escape_loop(_, _)
escape_loop(mem, i) ==
  IF mem[i] = NUL THEN <<>>
  ELSE (IF mem[i] = Quote THEN <<mem[i], mem[i]>> ELSE <<mem[i]>>)
         \o escape_loop(mem, i + 1)

\* lua_pushstring: the Lua string made of the bytes before the first zero
\* byte of the buffer.
RECURSIVE lua_pushstring(_)
lua_pushstring(buf) ==
  IF buf[1] = NUL THEN <<>> ELSE <<buf[1]>> \o lua_pushstring(Tail(buf))

\* conn_escape: the loop fills the buffer, a zero byte ends it, and the
\* buffer is pushed as a string.
conn_escape(s) ==
  lua_pushstring(escape_loop(luaL_checklstring(s), 1) \o <<NUL>>)

\* Any Lua string may be passed to escape.
EscapeInit ==
  /\ env = [closed |-> FALSE, lock |-> 0, status |-> FALSE]
  /\ conn = [c \in Conns |-> NoConn]
  /\ stmt = [s \in Stmts |-> NoStmt]
  /\ cur = [k \in Curs |-> NoCur]
  /\ registry = {}
  /\ phase = "run"
  /\ last = NoOp
  /\ from \in LuaStrings
  /\ to = NotEscaped
  /\ dpb = Unused
  /\ blob = Unused
  /\ var = Unused

ConnEscape ==
  /\ ~to.done
  /\ to' = [done |-> TRUE, str |-> conn_escape(from)]
  /\ UNCHANGED <<env, conn, stmt, cur, registry, phase, last, from, dpb, blob, var>>

EscapeNext == ConnEscape

EscapeSpec == EscapeInit /\ [][EscapeNext]_vars

\* The handles before any operation, with conn_escape not exercised.
NoHandles ==
  /\ env = [closed |-> FALSE, lock |-> 0, status |-> FALSE]
  /\ conn = [c \in Conns |-> NoConn]
  /\ stmt = [s \in Stmts |-> NoStmt]
  /\ cur = [k \in Curs |-> NoCur]
  /\ registry = {}
  /\ phase = "run"
  /\ last = NoOp
  /\ from = <<>>
  /\ to = NotEscaped

\* ---------------------------------------------------------------------
\* env_connect's database parameter buffer.  The user name and password
\* are C strings; only their lengths matter to what is written where.

DpbSize == 1024
CharRange == 256
MaxNameLen == 300
UserLens == 0..MaxNameLen
PassLens == {0, 255, 256, 760}

\* The buffer as env_connect fills it: four bytes of header, then for the
\* user name and for the password a tag byte, a length byte
\* ((char)strlen, the length modulo 256) and the bytes of the string.
\* None of the writes is bounded; `written` is the number of bytes written
\* from the start of dpb_buffer.
build_dpb(ulen, plen) ==
  LET header == 4
      user_at == header + 2
      pass_at == user_at + ulen + 2
  IN [user_len_byte |-> ulen % CharRange,
      pass_len_byte |-> plen % CharRange,
      written |-> pass_at + plen]

\* What conn.dpb_length holds afterwards.  A write past the end of
\* dpb_buffer is undefined behaviour: it runs over dpb_length and the
\* fields after it, and any value may be found there.
dpb_lengths(b) ==
  IF b.written <= DpbSize THEN {b.written} ELSE {b.written, 0}

DpbInit ==
  /\ NoHandles
  /\ dpb \in [done : {FALSE}, ulen : UserLens, plen : PassLens]
  /\ blob = Unused
  /\ var = Unused

BuildDpb ==
  /\ ~dpb.done
  /\ \E n \in dpb_lengths(build_dpb(dpb.ulen, dpb.plen)) :
       dpb' = [done |-> TRUE, ulen |-> dpb.ulen, plen |-> dpb.plen,
               buf |-> build_dpb(dpb.ulen, dpb.plen), dpb_length |-> n]
  /\ UNCHANGED <<handles, from, to, blob, var>>

DpbNext == BuildDpb

DpbSpec == DpbInit /\ [][DpbNext]_vars

\* ---------------------------------------------------------------------
\* write_blob with the data it puts.  The segment length of 10000 bytes is
\* scaled down to BlobSegLen so that strings of several segments, exact
\* multiples included, stay small; every engine call succeeds.

BlobSegLen == 3
MaxBlobLen == 7
BlobBytes == {97, 98}
BlobStrings == UNION {[1..n -> BlobBytes] : n \in 0..MaxBlobLen}

\* A data pointer that is not moved on.
data_not_advanced(data, n) == data

\* "data += 10000": the bytes from the n-th on.
data_advanced(data, n) == SubSeq(data, n + 1, Len(data))

\* The puts of write_blob: a full segment from the start of data while
\* more than a segment remains, then the rest.
RECURSIVE put_data(_, _, _)
put_data(data, len, seg) ==
  IF len > seg
    THEN <<[call |-> "put_segment", data |-> SubSeq(data, 1, seg)]>>
           \o put_data(data_advanced(data, seg), len - seg, seg)
    ELSE <<[call |-> "put_segment", data |-> SubSeq(data, 1, len)]>>

\* The engine calls of write_blob in order, with the bytes each put passes.
write_blob_log(data, len, seg) ==
  <<[call |-> "create_blob2", data |-> <<>>]>>
    \o put_data(data, len, seg)
    \o <<[call |-> "close_blob", data |-> <<>>]>>

BlobInit ==
  /\ NoHandles
  /\ dpb = Unused
  /\ blob \in [done : {FALSE}, data : BlobStrings]
  /\ var = Unused

WriteBlob ==
  /\ ~blob.done
  /\ blob' = [done |-> TRUE, data |-> blob.data,
              log |-> write_blob_log(blob.data, Len(blob.data), BlobSegLen)]
  /\ UNCHANGED <<handles, from, to, dpb, var>>

BlobNext == WriteBlob

BlobSpec == BlobInit /\ [][BlobNext]_vars

\* ---------------------------------------------------------------------
\* set_param and fill_param on one input slot (XSQLVAR).  The slot starts
\* as prepare leaves it (described by the engine, storage from
\* malloc_sqlda_vars) and is bound once for every execution.  Values are
\* nil, strings (by length) and numbers; every allocation succeeds.

MaxBinds == 2
DescribedLen == 10
BlobThreshold == 32752
QuadSize == 8
Int64Size == 8
DoubleSize == 8
TimestampSize == 8

TextTypes == {"SQL_VARYING", "SQL_BLOB", "SQL_TEXT"}
IntTypes == {"SQL_INT64", "SQL_LONG", "SQL_SHORT"}
FloatTypes == {"SQL_DOUBLE", "SQL_D_FLOAT", "SQL_FLOAT"}
TimeTypes == {"SQL_TIMESTAMP", "SQL_TYPE_TIME", "SQL_TYPE_DATE"}
ColumnTypes == TextTypes \cup IntTypes \cup FloatTypes \cup TimeTypes

\* Lua values: len is the length of the value's text (lua_tostring), num
\* its numeric reading (lua_tonumber; 0 for the strings used here).
Nil == [kind |-> "nil", len |-> 0, num |-> 0]
Str(n) == [kind |-> "string", len |-> n, num |-> 0]
Num(x) == [kind |-> "number", len |-> 1, num |-> x]
StringLens == {0, 1, BlobThreshold, LongString}
Numbers == {0, 1}
LuaValues == {Nil} \cup {Str(n) : n \in StringLens} \cup {Num(x) : x \in Numbers}

\* The slot after prepare: type and length as described, zeroed data, and
\* an indicator only for a nullable column.
described(col) ==
  [sqltype |-> col,
   sqllen  |-> DescribedLen,
   sqldata |-> [enc |-> "zeroed", val |-> Nil, copied |-> 0],
   sqlind  |-> IF col.nullable THEN "unset" ELSE "none"]

fill_param(slot, type, enc, val, len) ==
  [sqltype |-> [base |-> type, nullable |-> TRUE],
   sqlind  |-> "0",
   sqllen  |-> IF type = "SQL_TEXT" THEN len - 1 ELSE len,
   sqldata |-> [enc |-> enc, val |-> val, copied |-> len]]

\* A string of the threshold length goes to a blob as well.
NeedsBlobFrom(len) == len >= BlobThreshold

\* "strlen(str) > 0x7FF0"
NeedsBlob(len) == len > BlobThreshold

\* set_param on one slot; the switch is on the slot's current type.
set_param_var(slot, v) ==
  LET s    == IF slot.sqlind = "none" THEN [slot EXCEPT !.sqlind = "unset"]
                                      ELSE slot
      base == s.sqltype.base
  IN  IF v.kind = "nil" THEN [s EXCEPT !.sqlind = "-1"]
      ELSE CASE base \in TextTypes ->
                  IF NeedsBlob(v.len)
                    THEN fill_param(s, "SQL_BLOB", "blob_id", v, QuadSize)
                    ELSE fill_param(s, "SQL_TEXT", "text", v, v.len + 1)
             [] base \in IntTypes ->
                  fill_param(s, "SQL_INT64", "int64", v, Int64Size)
             [] base \in FloatTypes ->
                  fill_param(s, "SQL_DOUBLE", "double", v, DoubleSize)
             [] base \in TimeTypes ->
                  CASE v.kind = "number" ->
                         fill_param(s, "SQL_TIMESTAMP", "timestamp", v,
                                    TimestampSize)
                    [] v.kind = "string" ->
                         fill_param(s, "SQL_TEXT", "text", v, v.len + 1)
                    [] OTHER ->
                         fill_param(s, "SQL_TEXT", "text", Str(0), 1)
             [] OTHER -> s

BindInit ==
  /\ NoHandles
  /\ dpb = Unused
  /\ blob = Unused
  /\ \E base \in ColumnTypes, nullable \in BOOLEAN :
       var = [done  |-> FALSE,
              col   |-> [base |-> base, nullable |-> nullable],
              slot  |-> described([base |-> base, nullable |-> nullable]),
              value |-> Nil,
              binds |-> 0]

\* One execution binds one value to the slot.
SetParam ==
  /\ var.binds < MaxBinds
  /\ \E v \in LuaValues :
       var' = [var EXCEPT !.slot = set_param_var(var.slot, v),
                          !.value = v,
                          !.binds = var.binds + 1]
  /\ UNCHANGED <<handles, from, to, dpb, blob>>

BindNext == SetParam

BindSpec == BindInit /\ [][BindNext]_vars

\* ---------------------------------------------------------------------
\* Properties.

\* The handles whose closed flag is 0, by parent.
OpenConns == {c \in Conns : conn[c].made /\ ~conn[c].closed}
OpenStmts(c) == {s \in Stmts : stmt[s].made /\ ~stmt[s].closed /\ stmt[s].conn = c}
OpenCurs(s) == {k \in Curs : cur[k].made /\ ~cur[k].closed /\ cur[k].stmt = s}

\* Every engine call of operation op succeeded.
EngineOk(op) == \A i \in 1..Len(op.calls) : op.calls[i][2]

\* C1: connection.close() on an open Connection whose lock count is at
\* least 1 fails with "there are still open statements/cursors" and changes
\* nothing: the closed flag and the lock count stay as they were and no
\* engine call (commit, rollback, detach) is issued.  On an open Connection
\* with no open Statement it returns true and closes the Connection,
\* provided the engine calls it issues succeed.
C1_CloseRefusedWhileLocked ==
  [][\A c \in Conns :
       (last'.op = "conn_close" /\ last'.id = c /\ ~conn[c].closed) =>
         /\ conn[c].lock >= 1 =>
              /\ last'.res = "there are still open statements/cursors"
              /\ conn'[c] = conn[c]
              /\ env' = env
              /\ last'.calls = <<>>
              /\ last'.commits = {}
         /\ (OpenStmts(c) = {} /\ EngineOk(last')) =>
              /\ last'.res = "true"
              /\ conn'[c].closed
              /\ env'.lock = env.lock - 1]_vars

\* A close has just been refused on a Connection with an open Statement.
C1_Refused ==
  /\ last.op = "conn_close"
  /\ last.res = "there are still open statements/cursors"
  /\ ~conn[last.id].closed
  /\ conn[last.id].lock >= 1
  /\ OpenStmts(last.id) # {}

C3_ParentsOpen ==
  /\ \A k \in Curs : (cur[k].made /\ ~cur[k].closed) =>
        (stmt[cur[k].stmt].made /\ ~stmt[cur[k].stmt].closed)
  /\ \A s \in Stmts : (stmt[s].made /\ ~stmt[s].closed) =>
        (conn[stmt[s].conn].made /\ ~conn[stmt[s].conn].closed)
  /\ \A c \in Conns : (conn[c].made /\ ~conn[c].closed) => ~env.closed

\* C4, the part that holds: Statement.lock is always 0 or 1, and
\* statement.execute on a Statement whose lock count is greater than zero
\* fails, creates no Cursor and leaves the Statements and Cursors (the open
\* Cursor, the lock count) as they were.  The error is "statement already
\* has an open cursor" or, only for a Statement with parameters and with an
\* error in the status vector, the database error.
C4_OneCursorPerStatement ==
  /\ [](\A s \in Stmts : stmt[s].lock \in {0, 1})
  /\ [][\A s \in Stmts :
          (last'.op = "stmt_execute" /\ last'.id = s /\ stmt[s].lock > 0) =>
            /\ last'.res \in {"statement already has an open cursor", "dberror"}
            /\ last'.res = "dberror" => stmt[s].nparams > 0 /\ env'.status
            /\ cur' = cur
            /\ stmt' = stmt
            /\ conn' = conn]_vars

\* An execute has just been refused on a Statement whose Cursor is open.
C4_Refused ==
  /\ last.op = "stmt_execute"
  /\ last.res = "statement already has an open cursor"
  /\ stmt[last.id].lock = 1
  /\ OpenCurs(last.id) # {}

\* C4: statement.execute on a Statement whose lock count is greater than
\* zero is rejected with "statement already has an open cursor", creates no
\* Cursor and leaves the open Cursor and the lock count as they were.
C4_RejectedWithOpenCursor ==
  [][\A s \in Stmts :
       (last'.op = "stmt_execute" /\ last'.id = s /\ stmt[s].lock > 0) =>
         /\ last'.res = "statement already has an open cursor"
         /\ cur' = cur
         /\ stmt' = stmt]_vars

\* An execute on a Statement whose Cursor is open has just returned the
\* database error that an earlier operation left in the status vector: it
\* wrote nothing to the status vector itself.
C4_StaleErrorReturned ==
  /\ last.op = "stmt_execute"
  /\ last.res = "dberror"
  /\ last.calls = <<>>
  /\ stmt[last.id].lock = 1
  /\ OpenCurs(last.id) # {}

\* C5: on an open Cursor of a Statement that is no procedure call, a fetch
\* returns a row exactly while rows remain (the Cursor stays open, one row
\* fewer remains, the lock count stays) and signals end-of-data exactly
\* when none remains (the Cursor is then closed and the Statement's lock
\* count back to zero); one of the two happens whenever the engine calls
\* succeed.  A fetch on a closed Cursor returns nothing, issues no engine
\* call and changes nothing.
C5_FetchUntilEndOfData ==
  [][\A k \in Curs :
       (last'.op = "cur_fetch" /\ last'.id = k) =>
         IF cur[k].closed
           THEN /\ last'.res = "nothing"
                /\ last'.calls = <<>>
                /\ UNCHANGED <<env, conn, stmt, cur, registry>>
           ELSE stmt[cur[k].stmt].type # "exec_procedure" =>
                  /\ last'.res = "row" =>
                       /\ cur[k].left > 0
                       /\ ~cur'[k].closed
                       /\ cur'[k].left = cur[k].left - 1
                       /\ stmt'[cur[k].stmt].lock = 1
                  /\ last'.res = "eod" =>
                       /\ cur[k].left = 0
                       /\ cur'[k].closed
                       /\ stmt'[cur[k].stmt].lock = 0
                  /\ EngineOk(last') => last'.res \in {"row", "eod"}]_vars

\* A Cursor of a select has just been closed by the end-of-data fetch.
C5_Exhausted ==
  /\ last.op = "cur_fetch"
  /\ last.res = "eod"
  /\ cur[last.id].closed
  /\ stmt[cur[last.id].stmt].made
  /\ stmt[cur[last.id].stmt].type = "select"
  /\ stmt[cur[last.id].stmt].lock = 0

\* C6: a fetch on the open Cursor of a procedure call whose engine calls
\* succeed returns a row and leaves the Cursor closed and the Statement's
\* lock count at zero, however many rows the engine could still deliver.
C6_ProcedureCursorClosesAfterOneRow ==
  [][\A k \in Curs :
       (/\ last'.op = "cur_fetch" /\ last'.id = k
        /\ ~cur[k].closed
        /\ stmt[cur[k].stmt].type = "exec_procedure"
        /\ cur[k].left > 0
        /\ EngineOk(last')) =>
         /\ last'.res = "row"
         /\ cur'[k].closed
         /\ stmt'[cur[k].stmt].lock = 0
         /\ OpenCurs(cur[k].stmt)' = {}]_vars

\* The Cursor of a procedure call kept by its Statement has just been
\* closed by the fetch of a row.
C6_ClosedByRow ==
  /\ last.op = "cur_fetch"
  /\ last.res = "row"
  /\ cur[last.id].closed
  /\ stmt[cur[last.id].stmt].made
  /\ stmt[cur[last.id].stmt].type = "exec_procedure"
  /\ stmt[cur[last.id].stmt].lock = 0

\* C7: when a step closes a Cursor, it is cur_close, cur_fetch or cur_gc;
\* if the Cursor's Statement is hidden and the drop of the native statement
\* succeeds, the Statement is closed in the same step and the Connection's
\* lock count drops by one; if the Statement is not hidden it stays open
\* with the Connection's lock count as it was; nothing else is closed: the
\* Connection, the Environment, the other Statements and Cursors are as
\* before.
C7_HiddenStatementClosesWithCursor ==
  [][\A k \in Curs :
       (cur[k].made /\ ~cur[k].closed /\ (cur'[k].closed \/ ~cur'[k].made)) =>
         LET s == cur[k].stmt
             c == stmt[s].conn
         IN /\ last'.op \in {"cur_close", "cur_fetch", "cur_gc"}
            /\ last'.id = k
            /\ (stmt[s].hidden /\ EngineOk(last')) =>
                 /\ ~(stmt'[s].made /\ ~stmt'[s].closed)
                 /\ conn'[c].lock = conn[c].lock - 1
            /\ ~stmt[s].hidden =>
                 /\ stmt'[s].made /\ ~stmt'[s].closed
                 /\ stmt'[s].lock = 0
                 /\ conn'[c].lock = conn[c].lock
            /\ conn'[c].closed = conn[c].closed
            /\ env'.closed = env.closed
            /\ env'.lock = env.lock
            /\ \A s2 \in Stmts \ {s} : stmt'[s2] = stmt[s2]
            /\ \A k2 \in Curs \ {k} : cur'[k2] = cur[k2]]_vars

\* A cursor.close() has just closed the Cursor and, with it, the hidden
\* Statement of a connection.execute.
C7_Cascaded ==
  /\ last.op = "cur_close"
  /\ last.res = "true"
  /\ last.calls = << <<"free_statement_close", TRUE>>,
                     <<"free_statement_drop", TRUE>> >>
  /\ cur[last.id].closed
  /\ conn[1].made /\ conn[1].lock = 0

\* C8: a connection.execute that returns a row count leaves the
\* Connection's lock count as it was before the call and leaves no open
\* Statement or Cursor that was not open before; its last engine call is
\* the successful drop of the native statement.
C8_CountClosesHiddenStatement ==
  [][\A c \in Conns :
       (last'.op = "conn_execute" /\ last'.id = c /\ last'.res = "count") =>
         /\ conn'[c].lock = conn[c].lock
         /\ OpenStmts(c)' = OpenStmts(c)
         /\ \A s \in Stmts : stmt'[s].made => stmt[s].made
         /\ cur' = cur
         /\ last'.calls[Len(last'.calls)] = <<"free_statement_drop", TRUE>>]_vars

\* A connection.execute has just returned a row count.
C8_CountReturned ==
  /\ last.op = "conn_execute"
  /\ last.res = "count"
  /\ conn[last.id].lock = 0
  /\ OpenStmts(last.id) = {}

\* The connection an execute step runs on.
ExecutesOn(c) ==
  \/ last'.op = "conn_execute" /\ last'.id = c
  \/ last'.op = "stmt_execute" /\ stmt[last'.id].conn = c

\* C9: directly after an execute that succeeds (row count or Cursor) on a
\* Connection with autocommit enabled, no change made under autocommit is
\* left uncommitted in the Connection's transaction.
C9_ExecuteCommitsUnderAutocommit ==
  [][\A c \in Conns :
       (ExecutesOn(c) /\ conn[c].autocommit
          /\ last'.res \in {"count", "cursor"}) =>
         "on" \notin conn'[c].pend]_vars

\* C10: a change made while autocommit was disabled is committed only by
\* a step that is connection.commit(), or by an execute, a close or a
\* finalizer of the Connection taken while its autocommit is enabled.
C10_CommittedByCommitOrAutocommit ==
  [][("off" \in last'.commits) =>
       \/ last'.op = "conn_commit"
       \/ \E c \in Conns :
            /\ conn[c].autocommit
            /\ \/ ExecutesOn(c)
               \/ last'.op \in {"conn_close", "conn_gc"} /\ last'.id = c]_vars

\* A connection.commit() has just committed a change made while autocommit
\* was disabled.
C10_CommittedExplicitly ==
  /\ last.op = "conn_commit"
  /\ last.res = "true"
  /\ "off" \in last.commits

\* C10 as stated: a change made while autocommit was disabled is committed
\* by connection.commit() only.
C10_CommittedByCommitOnly ==
  [][("off" \in last'.commits) => last'.op = "conn_commit"]_vars
\* C11: connection.close() on an open Connection with lock count 0 first
\* ends the transaction (isc_commit_transaction when autocommit is set,
\* isc_rollback_transaction otherwise) and detaches only after that call
\* succeeded; the Connection is marked closed and the Environment's lock
\* count drops by one exactly when both calls succeeded; when either fails
\* the call returns the database error, the Connection stays open and the
\* Environment's lock count is unchanged.
C11_CloseEndsTransactionThenDetaches ==
  [][\A c \in Conns :
       (last'.op = "conn_close" /\ last'.id = c /\ ~conn[c].closed
          /\ conn[c].lock = 0) =>
         LET calls == last'.calls
             tx == IF conn[c].autocommit THEN "commit_transaction"
                                         ELSE "rollback_transaction"
         IN /\ Len(calls) >= 1
            /\ calls[1][1] = tx
            /\ IF calls[1][2]
                 THEN Len(calls) = 2 /\ calls[2][1] = "detach_database"
                 ELSE Len(calls) = 1
            /\ IF EngineOk(last')
                 THEN /\ last'.res = "true"
                      /\ conn'[c].closed
                      /\ env'.lock = env.lock - 1
                 ELSE /\ last'.res = "dberror"
                      /\ ~conn'[c].closed
                      /\ conn'[c].lock = 0
                      /\ env'.lock = env.lock]_vars

\* A connection.close() under autocommit has just committed, detached and
\* closed the Connection.
C11_CommittedAndDetached ==
  /\ last.op = "conn_close"
  /\ last.res = "true"
  /\ last.calls = << <<"commit_transaction", TRUE>>, <<"detach_database", TRUE>> >>
  /\ conn[last.id].closed
  /\ env.lock = 0
\* C12: statement.close() on a Statement whose lock count is nonzero fails
\* with "there are still open cursors", issues no engine call and changes
\* nothing.  On an open Statement with lock count 0 it drops the native
\* statement; when the drop succeeds it returns true, the input descriptor
\* is released, the Statement is marked closed and the Connection's lock
\* count is one less; when the drop fails it returns the database error and
\* Statement and Connection are as before.  On a closed Statement it
\* returns false, issues no engine call and changes nothing.
C12_StatementClose ==
  [][\A s \in Stmts :
       (last'.op = "stmt_close" /\ last'.id = s) =>
         LET c == stmt[s].conn
             frame == /\ last'.calls = <<>>
                      /\ UNCHANGED <<env, conn, stmt, cur, registry>>
         IN IF stmt[s].lock > 0
              THEN last'.res = "there are still open cursors" /\ frame
            ELSE IF stmt[s].closed
              THEN last'.res = "false" /\ frame
            ELSE /\ Len(last'.calls) = 1
                 /\ last'.calls[1][1] = "free_statement_drop"
                 /\ cur' = cur
                 /\ IF last'.calls[1][2]
                      THEN /\ last'.res = "true"
                           /\ stmt'[s].closed
                           /\ stmt'[s].nparams = 0
                           /\ conn'[c].lock = conn[c].lock - 1
                      ELSE /\ last'.res = "dberror"
                           /\ stmt' = stmt
                           /\ conn' = conn]_vars

\* A statement.close() has just been refused on a Statement whose Cursor is
\* open.
C12_RefusedWithOpenCursor ==
  /\ last.op = "stmt_close"
  /\ last.res = "there are still open cursors"
  /\ ~stmt[last.id].closed
  /\ stmt[last.id].lock = 1
  /\ conn[stmt[last.id].conn].lock = 1
\* C13: when isc_dsql_fetch fails with a status other than no-more-rows,
\* cursor.fetch returns the database error, issues no further engine call
\* and closes nothing: the Cursor, its Statement (closed flag, lock count)
\* and the Connection are as before.
C13_FailedFetchClosesNothing ==
  [][\A k \in Curs :
       (/\ last'.op = "cur_fetch" /\ last'.id = k
        /\ Len(last'.calls) >= 1
        /\ last'.calls[1] = <<"fetch", FALSE>>) =>
         /\ last'.res = "dberror"
         /\ Len(last'.calls) = 1
         /\ ~cur[k].closed
         /\ cur' = cur
         /\ stmt' = stmt
         /\ conn' = conn
         /\ registry' = registry]_vars

\* A fetch has just failed in the engine and left its Cursor open.
C13_FetchFailed ==
  /\ last.op = "cur_fetch"
  /\ last.res = "dberror"
  /\ last.calls = << <<"fetch", FALSE>> >>
  /\ ~cur[last.id].closed
  /\ stmt[cur[last.id].stmt].lock = 1
\* C14: for every Lua string s over the byte alphabet (the empty string,
\* strings of quotes only and strings holding a zero byte included),
\* escape(s) is s with every quote byte doubled and every other byte
\* unchanged and in order: byte i of s is found at position i plus the
\* number of quotes before it, a quote is followed by a second quote, and
\* the length is Len(s) plus the number of quotes in s.
C14_EscapeDoublesEveryQuote ==
  to.done =>
    LET quotes(n) == Cardinality({j \in 1..n : from[j] = Quote})
    IN /\ Len(to.str) = Len(from) + quotes(Len(from))
       /\ \A i \in 1..Len(from) :
            /\ to.str[i + quotes(i - 1)] = from[i]
            /\ from[i] = Quote => to.str[i + quotes(i - 1) + 1] = Quote

\* C14, as the code has it: escape(s) is the doubling of the bytes of s
\* that precede its first zero byte.
C14_EscapeDoublesUpToFirstZero ==
  to.done =>
    LET zeros == {j \in 1..Len(from) : from[j] = NUL}
        n == IF zeros = {} THEN Len(from)
             ELSE (CHOOSE j \in zeros : \A z \in zeros : j <= z) - 1
        quotes(m) == Cardinality({j \in 1..m : from[j] = Quote})
    IN /\ Len(to.str) = n + quotes(n)
       /\ \A i \in 1..n :
            /\ to.str[i + quotes(i - 1)] = from[i]
            /\ from[i] = Quote => to.str[i + quotes(i - 1) + 1] = Quote

\* A string with a quote after a zero byte has been escaped.
C14_EscapedPastZero ==
  /\ to.done
  /\ \E i, j \in 1..Len(from) : i < j /\ from[i] = NUL /\ from[j] = Quote
\* C15: a prepare that fails after isc_dsql_allocate_statement succeeded
\* (an unsupported classification, or any later failing exit) retains no
\* resource: the native statement receives exactly one releasing call
\* (isc_dsql_free_statement with DSQL_drop) before prepare returns, no
\* Statement is created and the Connection's lock count is unchanged.
C15_FailedPrepareReleasesHandle ==
  [][\A c \in Conns :
       (/\ last'.op = "conn_prepare" /\ last'.id = c
        /\ last'.res # "stmt"
        /\ Len(last'.calls) >= 1
        /\ last'.calls[1] = <<"allocate_statement", TRUE>>) =>
         /\ Cardinality({i \in 1..Len(last'.calls) :
                           last'.calls[i][1] = "free_statement_drop"}) = 1
         /\ stmt' = stmt
         /\ conn'[c].lock = conn[c].lock]_vars

\* C15, the part the code keeps: a failed prepare creates no Statement
\* and leaves the Connection's lock count and the registry as they were.
C15_FailedPrepareCreatesNothing ==
  [][\A c \in Conns :
       (last'.op = "conn_prepare" /\ last'.id = c /\ last'.res # "stmt") =>
         /\ stmt' = stmt
         /\ conn' = conn
         /\ registry' = registry]_vars

\* A prepare has just rejected an unsupported statement after allocating
\* and preparing its native statement.
C15_UnsupportedRejected ==
  /\ last.op = "conn_prepare"
  /\ last.res = "unsupported SQL statement"
  /\ Len(last.calls) = 3
  /\ last.calls[1] = <<"allocate_statement", TRUE>>
\* C16: when connection.execute fails in its execute step (an engine call
\* of raw_execute fails) after its internal prepare succeeded, the call
\* unwinds completely: the Statement it created is closed and its native
\* statement dropped before the call returns, so no Statement is left
\* behind and the Connection's lock count is what it was before the call.
C16_FailedExecuteUnwinds ==
  [][\A c \in Conns :
       LET calls == last'.calls
           names == {calls[i][1] : i \in 1..Len(calls)}
       IN (/\ last'.op = "conn_execute" /\ last'.id = c
           /\ last'.res = "dberror"
           /\ "describe" \in names
           /\ calls[Len(calls)][1] # "free_statement_drop") =>
            /\ "free_statement_drop" \in names
            /\ \A s \in Stmts : stmt'[s].made /\ ~stmt[s].made => stmt'[s].closed
            /\ conn'[c].lock = conn[c].lock]_vars

\* An execute has just failed in isc_dsql_execute and the Statement it
\* prepared is still open, unreferenced, and counted on the Connection.
C16_StatementLeftBehind ==
  /\ last.op = "conn_execute"
  /\ last.res = "dberror"
  /\ last.calls[Len(last.calls)] = <<"execute", FALSE>>
  /\ conn[last.id].lock = 1
  /\ \E s \in Stmts : /\ stmt[s].made /\ ~stmt[s].closed /\ ~stmt[s].ref
                       /\ stmt[s].conn = last.id
\* C17: environment.connect creates a Connection only after both
\* isc_attach_database and isc_start_transaction succeeded; when the attach
\* succeeds and the transaction start fails, connect returns the error,
\* detaches the database it attached before returning, creates no
\* Connection and leaves the Environment's lock count unchanged.
C17_ConnectUnwindsFailedStart ==
  [][last'.op = "env_connect" =>
       LET calls == last'.calls
       IN /\ last'.res = "conn" =>
               calls = << <<"attach_database", TRUE>>, <<"start_transaction", TRUE>> >>
          /\ (/\ Len(calls) >= 2
              /\ calls[1] = <<"attach_database", TRUE>>
              /\ calls[2] = <<"start_transaction", FALSE>>) =>
               /\ last'.res = "dberror"
               /\ \E i \in 1..Len(calls) : calls[i][1] = "detach_database"
               /\ conn' = conn
               /\ env'.lock = env.lock]_vars

\* C17, the part the code keeps: a Connection is created only after both
\* calls succeeded, and a connect that fails in either call returns the
\* error, creates no Connection and leaves the Environment's lock count
\* and the registry unchanged.
C17_ConnectionOnlyAfterBothSucceed ==
  [][last'.op = "env_connect" =>
       LET calls == last'.calls
       IN /\ last'.res = "conn" =>
               calls = << <<"attach_database", TRUE>>, <<"start_transaction", TRUE>> >>
          /\ (\E i \in 1..Len(calls) : ~calls[i][2]) =>
               /\ last'.res = "dberror"
               /\ conn' = conn
               /\ env'.lock = env.lock
               /\ registry' = registry]_vars

\* A connect has just failed in isc_start_transaction after attaching.
C17_StartFailedAfterAttach ==
  /\ last.op = "env_connect"
  /\ last.res = "dberror"
  /\ last.calls = << <<"attach_database", TRUE>>, <<"start_transaction", FALSE>> >>
\* C18: if an isc_dsql_describe call of execute fails, on the first pass
\* or on the second, resized pass, execute fails with the engine's error:
\* isc_dsql_execute is not called, no Cursor and no row count is returned,
\* and no Statement's lock count changes.
C18_FailedDescribeFailsExecute ==
  [][LET calls == last'.calls
     IN (/\ last'.op \in {"stmt_execute", "conn_execute"}
         /\ \E i \in 1..Len(calls) : calls[i] = <<"describe", FALSE>>) =>
          /\ last'.res = "dberror"
          /\ \A i \in 1..Len(calls) : calls[i][1] # "execute"
          /\ cur' = cur
          /\ \A s \in Stmts : stmt'[s].lock = stmt[s].lock]_vars

\* C18, the part the code keeps: a describe that fails on the second,
\* resized pass fails execute with the engine's error before
\* isc_dsql_execute, with no Cursor, no row count and no lock count changed.
C18_FailedSecondDescribeFailsExecute ==
  [][LET calls == last'.calls
     IN (/\ last'.op \in {"stmt_execute", "conn_execute"}
         /\ \E i \in 2..Len(calls) :
              calls[i - 1][1] = "describe" /\ calls[i] = <<"describe", FALSE>>) =>
          /\ last'.res = "dberror"
          /\ \A i \in 1..Len(calls) : calls[i][1] # "execute"
          /\ cur' = cur
          /\ \A s \in Stmts : stmt'[s].lock = stmt[s].lock]_vars

\* A Statement with columns has just been executed and answered a row
\* count although its first describe failed.
C18_ExecutedAfterFailedDescribe ==
  /\ last.op = "stmt_execute"
  /\ last.res = "count"
  /\ stmt[last.id].ncols > 0
  /\ \E i, j \in 1..Len(last.calls) :
       /\ i < j
       /\ last.calls[i] = <<"describe", FALSE>>
       /\ last.calls[j] = <<"execute", TRUE>>
\* C19: in write_blob every blob handle that isc_create_blob2 created is
\* closed exactly once before write_blob returns, on the success path and
\* on every error path: in the call log of an operation each successful
\* create is followed, before the next create or the end of the binding,
\* by exactly one isc_close_blob.
C19_CreatedBlobClosedOnce ==
  LET calls == last.calls
      n == Len(calls)
  IN \A i \in 1..n :
       calls[i] = <<"create_blob2", TRUE>> =>
         LET later == {j \in (i + 1)..n : calls[j][1] = "create_blob2"}
             end == IF later = {} THEN n
                    ELSE (CHOOSE j \in later : \A m \in later : j <= m) - 1
         IN Cardinality({j \in (i + 1)..end : calls[j][1] = "close_blob"}) = 1

\* C19, the part the code keeps: a created blob all of whose puts succeed
\* is closed exactly once, and one with a failed put is never closed twice.
C19_BlobClosedWhenPutsSucceed ==
  LET calls == last.calls
      n == Len(calls)
  IN \A i \in 1..n :
       calls[i] = <<"create_blob2", TRUE>> =>
         LET later == {j \in (i + 1)..n : calls[j][1] = "create_blob2"}
             end == IF later = {} THEN n
                    ELSE (CHOOSE j \in later : \A m \in later : j <= m) - 1
             closes == Cardinality({j \in (i + 1)..end : calls[j][1] = "close_blob"})
         IN IF \E j \in (i + 1)..end : calls[j] = <<"put_segment", FALSE>>
              THEN closes = 0
              ELSE closes = 1

\* A blob was created, its first put succeeded and a later put, not the
\* last, failed.
C19_MiddlePutFailed ==
  /\ last.op = "conn_prepare"
  /\ \E i \in 1..Len(last.calls) :
       /\ last.calls[i] = <<"create_blob2", TRUE>>
       /\ Len(last.calls) = i + 2
       /\ last.calls[i + 1] = <<"put_segment", TRUE>>
       /\ last.calls[i + 2] = <<"put_segment", FALSE>>

\* C20: a blob read or write fails whenever one of its engine calls fails:
\* a fetch in which isc_open_blob2, isc_get_segment or isc_close_blob
\* failed while a column was decoded returns an error instead of a row,
\* and a prepare or execute in which isc_create_blob2, isc_put_segment or
\* isc_close_blob failed while a long string was bound returns an error.
C20_BlobFailureFailsOperation ==
  LET calls == last.calls
      failed(names) == \E i \in 1..Len(calls) : calls[i][1] \in names /\ ~calls[i][2]
  IN /\ (/\ last.op = "cur_fetch"
          /\ failed({"open_blob2", "get_segment", "close_blob"})) =>
          last.res = "dberror"
     /\ (/\ last.op \in {"conn_prepare", "conn_execute", "stmt_execute"}
          /\ failed({"create_blob2", "put_segment", "close_blob"})) =>
          last.res = "dberror"

\* C20, the part the code keeps: a prepare or execute returns the error
\* of a failed blob write when no later parameter starts another blob.
C20_LastBlobWriteFailureFailsOperation ==
  LET calls == last.calls
  IN (/\ last.op \in {"conn_prepare", "conn_execute", "stmt_execute"}
      /\ \E i \in 1..Len(calls) :
           /\ calls[i][1] \in {"create_blob2", "put_segment", "close_blob"}
           /\ ~calls[i][2]
           /\ \A j \in (i + 1)..Len(calls) : calls[j][1] # "create_blob2") =>
       last.res = "dberror"

\* A fetch has just returned a row although the blob of one of its
\* columns could not be opened.
C20_RowAfterFailedBlobRead ==
  /\ last.op = "cur_fetch"
  /\ last.res = "row"
  /\ \E i \in 1..Len(last.calls) : last.calls[i] = <<"open_blob2", FALSE>>
\* A prepare has just returned a Statement although a put of the blob of
\* its first parameter failed.
C20_PreparedAfterFailedBlobWrite ==
  /\ last.op = "conn_prepare"
  /\ last.res = "stmt"
  /\ \E i \in 1..Len(last.calls) : last.calls[i] = <<"put_segment", FALSE>>
\* C25: statement.execute on a Statement that has an open Cursor is
\* rejected before any parameter is bound: the call returns the
\* open-cursor error, writes no blob and records no binding error.
C25_RejectedBeforeBinding ==
  [][\A s \in Stmts :
       (/\ last'.op = "stmt_execute" /\ last'.id = s
        /\ ~stmt[s].closed
        /\ stmt[s].lock > 0) =>
         /\ last'.res = "statement already has an open cursor"
         /\ last'.calls = <<>>]_vars

\* C25, the part the code keeps: a Statement without parameters that has
\* an open Cursor is rejected with no engine call and no change.
C25_RejectedWithoutParameters ==
  [][\A s \in Stmts :
       (/\ last'.op = "stmt_execute" /\ last'.id = s
        /\ ~stmt[s].closed
        /\ stmt[s].lock > 0
        /\ stmt[s].nparams = 0) =>
         /\ last'.res = "statement already has an open cursor"
         /\ last'.calls = <<>>
         /\ UNCHANGED <<env, conn, stmt, cur, registry>>]_vars

\* An execute has just been rejected for an open Cursor after it wrote
\* the blob of a long string parameter.
C25_BlobWrittenThenRejected ==
  /\ last.op = "stmt_execute"
  /\ last.res = "statement already has an open cursor"
  /\ stmt[last.id].lock = 1
  /\ \E i \in 1..Len(last.calls) : last.calls[i] = <<"close_blob", TRUE>>
\* C26: an operation reports an engine error only if an engine call it
\* issued itself failed: an error left in the shared status vector by an
\* earlier operation never makes a later operation, in particular a
\* prepare or a statement.execute with parameters, return a database error
\* when none of its own calls fails.
C26_ErrorOnlyFromOwnCalls ==
  [][last'.res = "dberror" =>
       \E i \in 1..Len(last'.calls) : ~last'.calls[i][2]]_vars

\* C26, the part the code keeps: every operation other than
\* statement.execute, prepare included, returns a database error only
\* when one of its own calls failed.
C26_ErrorOnlyFromOwnCallsButExecute ==
  [][(last'.res = "dberror" /\ last'.op # "stmt_execute") =>
       \E i \in 1..Len(last'.calls) : ~last'.calls[i][2]]_vars

\* A statement.execute on a Statement with no open Cursor has just
\* returned a database error without issuing any call, after the status
\* vector already held an error.
C26_FailedByEarlierError ==
  /\ last.op = "stmt_execute"
  /\ last.res = "dberror"
  /\ last.calls = <<>>
  /\ env.status
  /\ stmt[last.id].lock = 0
  /\ stmt[last.id].nparams > 0
\* C28: if binding one parameter fails during prepare or execute (a
\* failed call of its blob write, or a failed allocation recorded by
\* custom_fb_error), the operation returns an error whatever is bound after
\* it, and isc_dsql_execute is not called.
C28_BindingFailureFailsOperation ==
  [][LET calls == last'.calls
     IN (/\ last'.op \in {"conn_prepare", "conn_execute", "stmt_execute"}
         /\ \E i \in 1..Len(calls) :
              /\ calls[i][1] \in {"create_blob2", "put_segment", "close_blob",
                                   "custom_fb_error"}
              /\ ~calls[i][2]) =>
          /\ last'.res = "dberror"
          /\ \A i \in 1..Len(calls) : calls[i][1] # "execute"]_vars

\* C28, the part the code keeps: a failed binding followed only by values
\* stored inline fails the operation before isc_dsql_execute.
C28_LastBindingFailureFailsOperation ==
  [][LET calls == last'.calls
     IN (/\ last'.op \in {"conn_prepare", "conn_execute", "stmt_execute"}
         /\ \E i \in 1..Len(calls) :
              /\ calls[i][1] \in {"create_blob2", "put_segment", "close_blob",
                                   "custom_fb_error"}
              /\ ~calls[i][2]
              /\ \A j \in (i + 1)..Len(calls) : calls[j][1] # "create_blob2") =>
          /\ last'.res = "dberror"
          /\ \A i \in 1..Len(calls) : calls[i][1] # "execute"]_vars

\* A statement has just been executed although the allocation for its
\* first parameter failed: the blob of the second parameter was written
\* with success afterwards.
C28_ExecutedAfterFailedAllocation ==
  /\ last.op = "stmt_execute"
  /\ last.res \in {"cursor", "count"}
  /\ Len(last.calls) > 1
  /\ last.calls[1] = <<"custom_fb_error", FALSE>>
  /\ \E i \in 1..Len(last.calls) : last.calls[i] = <<"execute", TRUE>>
\* C30: the result of a close operation matches the resulting state:
\* when cursor.close, statement.close or connection.close returns an error
\* the handle is still open and its parent's lock count unchanged; when it
\* returns true the handle is closed; it returns false only when the
\* handle was closed before the call.
C30_CloseResultMatchesState ==
  [][/\ \A k \in Curs :
          (last'.op = "cur_close" /\ last'.id = k) =>
            /\ last'.res \notin {"true", "false"} =>
                 /\ ~cur'[k].closed
                 /\ stmt'[cur[k].stmt].lock = stmt[cur[k].stmt].lock
            /\ last'.res = "true" => cur'[k].closed
            /\ last'.res = "false" => cur[k].closed
      /\ \A s \in Stmts :
          (last'.op = "stmt_close" /\ last'.id = s) =>
            /\ last'.res \notin {"true", "false"} =>
                 /\ ~stmt'[s].closed
                 /\ conn'[stmt[s].conn].lock = conn[stmt[s].conn].lock
            /\ last'.res = "true" => stmt'[s].closed
            /\ last'.res = "false" => stmt[s].closed
      /\ \A c \in Conns :
          (last'.op = "conn_close" /\ last'.id = c) =>
            /\ last'.res \notin {"true", "false"} =>
                 /\ ~conn'[c].closed
                 /\ env'.lock = env.lock
            /\ last'.res = "true" => conn'[c].closed
            /\ last'.res = "false" => conn[c].closed]_vars

\* C30, the part the code keeps: the same with one exception, a
\* cursor.close that returns the error of the cascaded drop of its hidden
\* Statement.
C30_CloseResultMatchesStateButCascade ==
  [][/\ \A k \in Curs :
          (last'.op = "cur_close" /\ last'.id = k) =>
            /\ (/\ last'.res \notin {"true", "false"}
                /\ last'.calls[Len(last'.calls)][1] # "free_statement_drop") =>
                 /\ ~cur'[k].closed
                 /\ stmt'[cur[k].stmt].lock = stmt[cur[k].stmt].lock
            /\ last'.res = "true" => cur'[k].closed
            /\ last'.res = "false" => cur[k].closed
      /\ \A s \in Stmts :
          (last'.op = "stmt_close" /\ last'.id = s) =>
            /\ last'.res \notin {"true", "false"} =>
                 /\ ~stmt'[s].closed
                 /\ conn'[stmt[s].conn].lock = conn[stmt[s].conn].lock
            /\ last'.res = "true" => stmt'[s].closed
            /\ last'.res = "false" => stmt[s].closed
      /\ \A c \in Conns :
          (last'.op = "conn_close" /\ last'.id = c) =>
            /\ last'.res \notin {"true", "false"} =>
                 /\ ~conn'[c].closed
                 /\ env'.lock = env.lock
            /\ last'.res = "true" => conn'[c].closed
            /\ last'.res = "false" => conn[c].closed]_vars

\* A cursor.close has just returned an error although it closed the
\* Cursor and took it off the Statement's lock count.
C30_ErrorFromClosedCursor ==
  /\ last.op = "cur_close"
  /\ last.res = "dberror"
  /\ cur[last.id].closed
  /\ stmt[cur[last.id].stmt].lock = 0
  /\ ~stmt[cur[last.id].stmt].closed
\* C22: for every count N the engine reports, the capacity of the
\* descriptor equals exactly N once the allocate/describe/reallocate
\* protocol is complete: for the input descriptor of every open Statement
\* and for the output descriptor of every open Cursor.
C22_CapacityEqualsCount ==
  /\ \A s \in Stmts :
       (stmt[s].made /\ ~stmt[s].closed) => stmt[s].sqln = stmt[s].nparams
  /\ \A k \in Curs :
       (cur[k].made /\ ~cur[k].closed) => cur[k].sqln = cur[k].sqld

\* C22, as the code has it: the capacity equals N when N is at least 1,
\* and is 1 when the engine reports no parameter.  An open Cursor always
\* has at least one column.
C22_CapacityEqualsCountOrOne ==
  /\ \A s \in Stmts :
       (stmt[s].made /\ ~stmt[s].closed) =>
         stmt[s].sqln = IF stmt[s].nparams = 0 THEN 1 ELSE stmt[s].nparams
  /\ \A k \in Curs :
       (cur[k].made /\ ~cur[k].closed) =>
         cur[k].sqld >= 1 /\ cur[k].sqln = cur[k].sqld

\* An open Statement without parameters holds an input descriptor of
\* capacity 1, and its open Cursor of two columns an output descriptor
\* that was reallocated to capacity 2.
C22_OneSlotForNoParameter ==
  \E s \in Stmts, k \in Curs :
    /\ stmt[s].made /\ ~stmt[s].closed
    /\ stmt[s].nparams = 0 /\ stmt[s].sqln = 1
    /\ cur[k].made /\ ~cur[k].closed /\ cur[k].stmt = s
    /\ cur[k].sqld = 2 /\ cur[k].sqln = 2
\* C23: for every user name and password the buffer built by
\* environment.connect is at most 1024 bytes long (no write goes past
\* dpb_buffer and dpb_length is the number of bytes written), and each
\* length byte is the number of bytes of the user name, respectively the
\* password, that follow it.
C23_DpbWithinBuffer ==
  dpb.done =>
    /\ dpb.buf.written <= DpbSize
    /\ dpb.dpb_length = dpb.buf.written
    /\ dpb.buf.user_len_byte = dpb.ulen
    /\ dpb.buf.pass_len_byte = dpb.plen

\* C23, the part the code keeps: the same for a user name and a password
\* of at most 255 bytes each.
C23_ShortNamesWithinBuffer ==
  (dpb.done /\ dpb.ulen < CharRange /\ dpb.plen < CharRange) =>
    /\ dpb.buf.written <= DpbSize
    /\ dpb.dpb_length = dpb.buf.written
    /\ dpb.buf.user_len_byte = dpb.ulen
    /\ dpb.buf.pass_len_byte = dpb.plen

\* A buffer has been built whose bytes run past the end of dpb_buffer.
C23_WrittenPastBuffer ==
  /\ dpb.done
  /\ dpb.buf.written > DpbSize
  /\ dpb.ulen > 0 /\ dpb.plen > 0
\* C21: for every byte string of length L written by write_blob, exact
\* multiples of the segment length included, every segment put is at most
\* a segment long, every segment but the last is exactly a segment long,
\* the segments in order are the bytes of the input, and the blob is
\* closed only after the last segment was put: the calls are one create,
\* the puts, and one close at the end.
C21_SegmentsCarryTheInput ==
  blob.done =>
    LET log == blob.log
        n == Len(log)
        puts == [i \in 1..(n - 2) |-> log[i + 1].data]
    IN /\ n >= 3
       /\ log[1].call = "create_blob2"
       /\ log[n].call = "close_blob"
       /\ \A i \in 2..(n - 1) : log[i].call = "put_segment"
       /\ \A i \in 1..(n - 2) : Len(puts[i]) <= BlobSegLen
       /\ \A i \in 1..(n - 3) : Len(puts[i]) = BlobSegLen
       /\ Len(blob.data) = (n - 3) * BlobSegLen + Len(puts[n - 2])
       /\ \A j \in 1..Len(blob.data) :
            blob.data[j] = puts[((j - 1) \div BlobSegLen) + 1][((j - 1) % BlobSegLen) + 1]

\* A string of exactly two segments, with different bytes in the two, has
\* been written.
C21_ExactMultipleWritten ==
  /\ blob.done
  /\ Len(blob.data) = 2 * BlobSegLen
  /\ blob.data[1] # blob.data[BlobSegLen + 1]
  /\ Len(blob.log) = 4

\* C24: a string bound to a text-typed column is stored inline when it has
\* at most 32,752 bytes (type text, the string and its terminator copied,
\* the slot's length the string's length) and through a blob when it is
\* longer (type blob, the slot holds the blob reference); 32,752 is inline
\* and 32,753 is a blob.
C24_StringInlineOrBlob ==
  (var.binds >= 1 /\ var.col.base \in TextTypes /\ var.value.kind = "string")
    => IF var.value.len <= BlobThreshold
         THEN /\ var.slot.sqltype.base = "SQL_TEXT"
              /\ var.slot.sqldata =
                   [enc |-> "text", val |-> var.value,
                    copied |-> var.value.len + 1]
              /\ var.slot.sqllen = var.value.len
         ELSE /\ var.slot.sqltype.base = "SQL_BLOB"
              /\ var.slot.sqldata =
                   [enc |-> "blob_id", val |-> var.value, copied |-> QuadSize]
              /\ var.slot.sqllen = QuadSize

\* C24 as stated: the inline slot's length is the string's length plus one.
C24_InlineLengthCountsTerminator ==
  (var.binds >= 1 /\ var.col.base \in TextTypes /\ var.value.kind = "string")
    => IF var.value.len <= BlobThreshold
         THEN /\ var.slot.sqltype.base = "SQL_TEXT"
              /\ var.slot.sqldata.enc = "text"
              /\ var.slot.sqllen = var.value.len + 1
         ELSE /\ var.slot.sqltype.base = "SQL_BLOB"
              /\ var.slot.sqldata.enc = "blob_id"

\* A string of exactly 32,752 bytes bound inline after a longer one went
\* through a blob.
C24_ThresholdStringInline ==
  /\ var.binds = 2
  /\ var.col.base = "SQL_VARYING"
  /\ var.value = Str(BlobThreshold)
  /\ var.slot.sqltype.base = "SQL_TEXT"
  /\ var.slot.sqllen = BlobThreshold

\* C27: the encoding of a bound value depends on the value and the column's
\* declared type only: a number bound to a date, time or timestamp column is
\* a timestamp, and the slot after binding a value is the slot a freshly
\* prepared statement has after binding it (nil sets the indicator).
C27_EncodingIndependentOfHistory ==
  var.binds >= 1 =>
    /\ var.value.kind = "nil" => var.slot.sqlind = "-1"
    /\ var.value.kind # "nil" =>
         var.slot = set_param_var(described(var.col), var.value)
    /\ (var.col.base \in TimeTypes /\ var.value.kind = "number") =>
         var.slot.sqltype.base = "SQL_TIMESTAMP"

\* The part of C27 the code keeps: columns that are not date, time or
\* timestamp, and the first binding of any column.
C27_IndependentOutsideTimeColumns ==
  (var.binds >= 1 /\ (var.col.base \notin TimeTypes \/ var.binds = 1)) =>
    /\ var.value.kind = "nil" => var.slot.sqlind = "-1"
    /\ var.value.kind # "nil" =>
         var.slot = set_param_var(described(var.col), var.value)

\* A number bound to a timestamp column after a string: encoded as text.
C27_NumberBoundAsText ==
  /\ var.binds = 2
  /\ var.col.base = "SQL_TIMESTAMP"
  /\ var.value = Num(1)
  /\ var.slot.sqltype.base = "SQL_TEXT"
  /\ var.slot.sqldata.enc = "text"

\* C29: no engine call is issued on a native handle after a releasing call
\* on it succeeded.  For the transaction: an operation on a connection
\* whose transaction was committed or rolled back by a close, or on a
\* statement or cursor of that connection, issues no call that is passed
\* the transaction.  For statement and attachment: an operation issues
\* engine calls only when its handle and the handles above it are open.
C29_NoCallOnReleasedHandle ==
  [][LET op == last'.op
         id == last'.id
         s == CASE op \in {"stmt_execute", "stmt_close", "stmt_gc"} -> id
                [] op \in {"cur_fetch", "cur_close", "cur_gc"} -> cur[id].stmt
                [] OTHER -> 0
         c == CASE op \in {"conn_prepare", "conn_execute", "conn_commit",
                           "conn_rollback", "conn_close", "conn_gc"} -> id
                [] s \in Stmts -> stmt[s].conn
                [] OTHER -> 0
     IN  /\ (c \in Conns /\ conn[c].made /\ conn[c].ended) =>
              \A i \in 1..Len(last'.calls) : last'.calls[i][1] \notin TxCalls
         /\ (last'.calls # <<>> /\ op # "env_connect") =>
              /\ c \in Conns /\ ~conn[c].closed
              /\ s \in Stmts => ~stmt[s].closed
              /\ op \in {"cur_fetch", "cur_close", "cur_gc"} => ~cur[id].closed
    ]_vars

\* The part of C29 the code keeps: engine calls are issued only through
\* open handles, so none targets a dropped statement or a detached
\* attachment.
C29_NoCallThroughClosedHandle ==
  [][LET op == last'.op
         id == last'.id
         s == CASE op \in {"stmt_execute", "stmt_close", "stmt_gc"} -> id
                [] op \in {"cur_fetch", "cur_close", "cur_gc"} -> cur[id].stmt
                [] OTHER -> 0
         c == CASE op \in {"conn_prepare", "conn_execute", "conn_commit",
                           "conn_rollback", "conn_close", "conn_gc"} -> id
                [] s \in Stmts -> stmt[s].conn
                [] OTHER -> 0
     IN  (last'.calls # <<>> /\ op # "env_connect") =>
           /\ c \in Conns /\ ~conn[c].closed
           /\ s \in Stmts => ~stmt[s].closed
           /\ op \in {"cur_fetch", "cur_close", "cur_gc"} => ~cur[id].closed
    ]_vars

\* A close has ended the transaction, failed to detach and left the
\* connection open; a commit on it was then passed the ended transaction.
C29_CommitOnEndedTransaction ==
  /\ conn[1].made /\ ~conn[1].closed /\ conn[1].ended
  /\ last.op = "conn_commit" /\ last.id = 1
  /\ last.calls = <<<<"commit_retaining", TRUE>>>>

====
